---------------------------- MODULE Spec2Model ----------------------------
(***************************************************************************)
(* Header synchronisation of libbitcoin-node: protocol_header_sync (one    *)
(* instance per channel) working on a header slot table shared by the      *)
(* sequence of instances, the one-shot completion synchronizer, the        *)
(* periodic rate timer and the channel's stop and subscription events.     *)
(***************************************************************************)
EXTENDS Integers, Sequences, FiniteSets, TLC

(***************************************************************************)
(* Bounds of the model.                                                    *)
(***************************************************************************)
\* Largest headers message a peer sends (2000 in the protocol, scaled down so
\* that full and short batches are both enumerable).
max_get_headers == 2
\* Number of slots of the table (stop height - start height).
Capacity == 3
\* The larger of the two first heights a table is built with.
MaxFirstHeight == 5
\* Largest configured minimum rate (headers per second).
MaxRate == 1

\* The interval in which header download rate is measured and tested.
expiry_interval == 5

\* size_t arithmetic is modular.  The modulus is far above every value the
\* bounds reach, so a wrap shows exactly where the code's arithmetic wraps.
SizeMod == 2^30

\* Expiry periods an instance counts: from then on the rate of any table
\* within Capacity of MaxFirstHeight is 0 and stays 0, so the count is held.
TickCap == ((MaxFirstHeight + Capacity) \div expiry_interval) + 1

(***************************************************************************)
(* Codes.                                                                  *)
(***************************************************************************)
success                == "success"
channel_stopped        == "channel_stopped"
channel_timeout        == "channel_timeout"
invalid_previous_block == "invalid_previous_block"
operation_failed       == "operation_failed"
\* Any transport failure of a send, a receive or the timer.
bad_stream             == "bad_stream"
NoCode                 == "none"

Codes == {success, channel_stopped, channel_timeout, invalid_previous_block,
          operation_failed, bad_stream}

(***************************************************************************)
(* Block headers.  Only the previous hash and the hash of the header       *)
(* matter.  A header is its previous hash and a nonce; its hash is an      *)
(* injective, acyclic function of both.                                    *)
(***************************************************************************)
Nonces == {0, 1}

Header(p, n) == [previous_hash |-> p, nonce |-> n]

hash(h) == 2 * h.previous_hash + h.nonce + 1

\* The anchor: hash of the block below the first slot.
first_hash == 0

RECURSIVE HonestHash(_)
HonestHash(k) == IF k = 0 THEN first_hash
                 ELSE hash(Header(HonestHash(k - 1), 0))

\* The hash that marks completion: the honest chain's header in the last slot.
stop_hash == HonestHash(Capacity)

\* A hash that links to nothing stored.
DeadHash == 2^(Capacity + 4)


(***************************************************************************)
(* State.  One protocol instance is followed at a time: the instance the   *)
(* session constructed last, from its construction until the session       *)
(* constructs its replacement on the same table.                           *)
(***************************************************************************)
VARIABLES
    first_height,    \* header_list: height of the first slot
    slots,           \* header_list: the stored headers, in order
    minimum_rate_,   \* the configured minimum rate (headers per second)
    phase,           \* "idle" (constructed) or "running" (started)
    current_second_, \* seconds of expired timer intervals
    start_size_,     \* captured at construction
    counter,         \* the synchronizer's count (clearance 1)
    calls,           \* codes the user's handler was invoked with, in order
    first_signal,    \* code of the first completion signalled
    stop_pending,    \* headers_complete is between handler(ec) and stop()
    chan_stopped,    \* the channel's stopped() predicate
    subscribed,      \* the headers subscription is live
    tick_in_flight,  \* a timer expiry that has not reached handle_event yet
    stop_event,      \* the channel's stop notification, not yet delivered
    send_pending,    \* sends whose completion handler has not run yet
    sent,            \* the get_headers requests sent, in order
    merged,          \* batches this instance merged
    rejected         \* why this instance's merge failed, "none" if none did

\* The session (session.cpp), the services it talks to, and its callbacks
\* that have been issued and have not run yet.
VARIABLES
    session_started,       \* session::start has run
    channel_subscribed,    \* protocol_.subscribe_channel is armed
    reorg_subscribed,      \* chain_.subscribe_reorganize is armed
    chain_height,          \* the chain store's last height
    fetch,                 \* fetch_last_height: "none", "queued", or its result
    handshake_heights,     \* handshake_.set_start_height calls, in order
    inv_to_broadcast,      \* new_blocks of handlers that have re-subscribed
                           \* and not broadcast yet
    broadcasts,            \* protocol_.broadcast calls, in order
    reorgs,                \* reorganization callbacks delivered
    opened,                \* channels a new-channel notification was given for
    inventory_subscribed,  \* per channel: subscribe_inventory calls armed
    get_blocks_subscribed, \* per channel: subscribe_get_blocks calls armed
    polled,                \* per channel: poll_.query and poll_.monitor calls
    announced,             \* inventory and get_blocks deliveries, in order
    strand,                \* new_tx_inventory tasks posted and not run yet
    exists_pending,        \* tx_pool_.exists queries not answered yet
    exists_calls,          \* tx_pool_.exists calls made
    get_data_sent,         \* get_data requests sent, in order
    pool                   \* transaction hashes the pool holds

sync_vars == <<first_height, slots, minimum_rate_, phase, current_second_,
               start_size_, counter, calls, first_signal, stop_pending,
               chan_stopped, subscribed, tick_in_flight, stop_event,
               send_pending, sent, merged, rejected>>

session_vars == <<session_started, channel_subscribed, reorg_subscribed,
                  chain_height, fetch, handshake_heights, inv_to_broadcast,
                  broadcasts, reorgs, opened, inventory_subscribed,
                  get_blocks_subscribed, polled, announced, strand,
                  exists_pending, exists_calls, get_data_sent, pool>>

vars == <<sync_vars, session_vars>>

(***************************************************************************)
(* The header slot table (header_list).                                    *)
(***************************************************************************)
\* A previous_hash() that does not advance with the table.
previous_hash_stale(s) == first_hash

\* Hash of the last stored header, or the anchor if the table is empty.
previous_hash(s) == IF s = <<>> THEN first_hash ELSE hash(s[Len(s)])

\* first_height + len - 1, or first_height - 1 if empty (size_t).
previous_height(s) == (first_height + Len(s) - 1) % SizeMod

\* A complete() that counts the stored headers.
complete_when_full(s) == Len(s) = Capacity

\* True when the last stored header's hash equals the stop hash.
complete(s) == s # <<>> /\ hash(s[Len(s)]) = stop_hash

\* Every header of seq links to the one before it, the first one to prev.
Linked(prev, seq) ==
    \A i \in 1..Len(seq) :
        seq[i].previous_hash = (IF i = 1 THEN prev ELSE hash(seq[i - 1]))

\* Headers beyond the stop hash are not appended.
Accepted(batch) ==
    LET stops == {i \in 1..Len(batch) : hash(batch[i]) = stop_hash}
    IN  IF stops = {} THEN batch
        ELSE SubSeq(batch, 1, CHOOSE i \in stops : \A j \in stops : i <= j)

\* A merge that does not look at the capacity.
merge_ok_unbounded(s, batch) == Linked(previous_hash(s), Accepted(batch))

\* merge's result: the accepted headers link and fit.
merge_ok(s, batch) ==
    /\ Linked(previous_hash(s), Accepted(batch))
    /\ Len(s) + Len(Accepted(batch)) <= Capacity

\* Why merge returns false: the accepted headers do not link, or do not fit.
merge_reject(s, batch) ==
    IF ~Linked(previous_hash(s), Accepted(batch)) THEN "linkage"
    ELSE IF Len(s) + Len(Accepted(batch)) > Capacity THEN "capacity"
    ELSE "none"

\* A failed merge that leaves the table as it was.
merge_failure_keeps(s) == s

\* The table after a failed merge: "A merge failure resets the headers list."
merge_failure(s) == <<>>

\* A merge that appends whatever it is given.
merge_unchecked(s, batch) == s \o batch

\* The table after merge(batch).
merge(s, batch) ==
    IF merge_ok(s, batch) THEN s \o Accepted(batch) ELSE merge_failure(s)

(***************************************************************************)
(* What a peer may send: up to max_get_headers headers.  The batch starts  *)
(* at the table's previous hash, honest or forked, all linked or with one  *)
(* later header (the k-th) that links to nothing; or it is the honest      *)
(* chain from the anchor again; or its first header links to nothing.      *)
(***************************************************************************)
RECURSIVE Build(_, _, _)
Build(p, ns, k) ==
    IF ns = <<>> THEN <<>>
    ELSE LET h == Header(IF k = 1 THEN DeadHash ELSE p, Head(ns))
         IN  <<h>> \o Build(hash(h), Tail(ns), k - 1)

NonceSeqs == UNION { [1..n -> Nonces] : n \in 0..max_get_headers }

Batches(s) ==
    { Build(previous_hash(s), ns, k) :
        ns \in NonceSeqs, k \in {0} \cup (2..max_get_headers) }
    \cup
    { Build(first_hash, [i \in 1..n |-> 0], k) :
        n \in 1..max_get_headers, k \in {0, 1} }

(***************************************************************************)
(* The session: what it is given and how it is constructed.                *)
(***************************************************************************)
\* New blocks a reorganization carries at most.
MaxNewBlocks == 2
\* Reorganization callbacks followed.
MaxReorgs == 2
\* bc::max_uint32, scaled down: the heights the handshake is given are
\* uint32_t.
max_uint32 == 7
\* Channels the network opens.
MaxChannels == 2
\* Inventory and get_blocks deliveries followed.
MaxDeliveries == 2

service_stopped == "service_stopped"

Channels == 1..MaxChannels

\* The k-th block of a new branch: only its header matters here.
Block(k) == [header |-> Header(HonestHash(k - 1), 0)]

\* hash_block_header(block->header)
hash_block_header(header) == hash(header)

\* The new_blocks lists a reorganization can carry: a branch of up to
\* MaxNewBlocks blocks, each on top of the one before.
BlockLists == { [k \in 1..n |-> Block(k)] : n \in 0..MaxNewBlocks }

\* session::session: references are stored, nothing is subscribed or sent.
session_construct ==
    /\ session_started = FALSE
    /\ channel_subscribed = 0
    /\ reorg_subscribed = 0
    /\ fetch = [state |-> "none", height |-> 0]
    /\ handshake_heights = <<>>
    /\ inv_to_broadcast = <<>>
    /\ broadcasts = <<>>
    /\ reorgs = 0
    /\ opened = {}
    /\ inventory_subscribed = [c \in Channels |-> 0]
    /\ get_blocks_subscribed = [c \in Channels |-> 0]
    /\ polled = [c \in Channels |-> [query |-> 0, monitor |-> 0]]
    /\ announced = <<>>
    /\ strand = <<>>
    /\ exists_pending = <<>>
    /\ exists_calls = 0
    /\ get_data_sent = <<>>
    /\ pool = {}

(***************************************************************************)
(* Construction.                                                           *)
(***************************************************************************)
\* start_size_(headers->previous_height() - headers->first_height())
construct_start_size(s) == (previous_height(s) - first_height) % SizeMod

\* protocol_header_sync(network, channel, headers, minimum_rate) on table s.
construct(s) ==
    /\ phase' = "idle"
    /\ current_second_' = 0
    /\ start_size_' = construct_start_size(s)
    /\ counter' = 0
    /\ calls' = <<>>
    /\ first_signal' = NoCode
    /\ stop_pending' = FALSE
    /\ chan_stopped' = FALSE
    /\ subscribed' = FALSE
    /\ tick_in_flight' = FALSE
    /\ stop_event' = FALSE
    /\ send_pending' = 0
    /\ sent' = <<>>
    /\ merged' = 0
    /\ rejected' = "none"

Init ==
    /\ first_height \in {0, MaxFirstHeight}
    /\ slots = <<>>
    /\ minimum_rate_ \in {0, MaxRate}
    /\ phase = "idle"
    /\ current_second_ = 0
    /\ start_size_ = construct_start_size(<<>>)
    /\ counter = 0
    /\ calls = <<>>
    /\ first_signal = NoCode
    /\ stop_pending = FALSE
    /\ chan_stopped = FALSE
    /\ subscribed = FALSE
    /\ tick_in_flight = FALSE
    /\ stop_event = FALSE
    /\ send_pending = 0
    /\ sent = <<>>
    /\ merged = 0
    /\ rejected = "none"
    /\ session_construct
    /\ chain_height = 0

(***************************************************************************)
(* The completion synchronizer: synchronize(headers_complete, 1, NAME).    *)
(***************************************************************************)
clearance_count == 1

\* The count after a call: an error clears at once, a success counts one up.
next_count(initial, ec) ==
    IF ec # success THEN clearance_count ELSE initial + 1

\* A synchronizer that never drops a call.
dropped_never(initial) == FALSE

\* The call is dropped: the synchronizer has already cleared.
dropped(initial) == initial = clearance_count

\* A completion that invokes the handler and leaves the channel alone.
headers_complete_no_stop(ec) ==
    /\ calls' = Append(calls, ec)
    /\ UNCHANGED stop_pending

\* headers_complete: the user's handler is invoked; the stop follows.
headers_complete(ec) ==
    /\ calls' = Append(calls, ec)
    /\ stop_pending' = TRUE

\* complete(ec) as the handlers call it.
synchronize(ec) ==
    /\ first_signal' = (IF first_signal = NoCode THEN ec ELSE first_signal)
    /\ IF dropped(counter)
       THEN UNCHANGED <<counter, calls, stop_pending>>
       ELSE /\ counter' = next_count(counter, ec)
            /\ IF next_count(counter, ec) = clearance_count
               THEN headers_complete(ec)
               ELSE UNCHANGED <<calls, stop_pending>>

\* A handler invocation that signals no completion.
no_complete ==
    UNCHANGED <<counter, calls, first_signal, stop_pending>>

\* The second half of headers_complete: stop(error::channel_stopped).
headers_complete_stop ==
    /\ stop_pending
    /\ stop_pending' = FALSE
    /\ chan_stopped' = TRUE
    /\ stop_event' = (stop_event \/ ~chan_stopped)
    /\ UNCHANGED <<first_height, slots, minimum_rate_, phase, current_second_,
                   start_size_, counter, calls, first_signal, subscribed,
                   tick_in_flight, send_pending, sent, merged, rejected>>
    /\ UNCHANGED session_vars

(***************************************************************************)
(* protocol_header_sync.                                                   *)
(***************************************************************************)
\* A channel that never reports itself stopped.
stopped_never == FALSE

\* stopped(): the channel's predicate.
stopped == chan_stopped

\* A request that always asks from the anchor.
send_get_headers_from_anchor(s) ==
    IF stopped THEN UNCHANGED <<sent, send_pending>>
    ELSE /\ sent' = Append(sent, [locator |-> first_hash, stop |-> stop_hash])
         /\ send_pending' = send_pending + 1

\* A send_get_headers that sends its request twice.
send_get_headers_twice(s) ==
    IF stopped THEN UNCHANGED <<sent, send_pending>>
    ELSE /\ sent' = sent \o <<[locator |-> previous_hash(s), stop |-> stop_hash],
                              [locator |-> previous_hash(s), stop |-> stop_hash]>>
         /\ send_pending' = send_pending + 2

\* send_get_headers with the table s: nothing on a stopped channel, else
\* get_headers { { previous_hash }, stop_hash } goes out.
send_get_headers(s) ==
    IF stopped
    THEN UNCHANGED <<sent, send_pending>>
    ELSE /\ sent' = Append(sent, [locator |-> previous_hash(s),
                                  stop |-> stop_hash])
         /\ send_pending' = send_pending + 1

\* start(handler): the timer is armed (and the stop subscription, which
\* fires at once on a stopped channel), headers are subscribed, the first
\* get_headers is sent.
start ==
    /\ phase = "idle"
    /\ phase' = "running"
    /\ subscribed' = TRUE
    /\ stop_event' = stopped
    /\ send_get_headers(slots)
    /\ no_complete
    /\ UNCHANGED <<first_height, slots, minimum_rate_, current_second_,
                   start_size_, chan_stopped, tick_in_flight, merged, rejected>>
    /\ UNCHANGED session_vars

\* handle_send(ec, complete).
handle_send(ec) ==
    /\ send_pending > 0
    /\ send_pending' = send_pending - 1
    /\ IF stopped THEN no_complete
       ELSE IF ec # success THEN synchronize(ec)
       ELSE no_complete
    /\ UNCHANGED <<first_height, slots, minimum_rate_, phase, current_second_,
                   start_size_, chan_stopped, subscribed, tick_in_flight,
                   stop_event, sent, merged, rejected>>
    /\ UNCHANGED session_vars

\* An outcome that takes a short batch for the end of the sync.
receive_outcome_short_success(s, message) ==
    IF ~merge_ok(s, message) THEN invalid_previous_block
    ELSE IF complete(merge(s, message)) \/ Len(message) < max_get_headers
    THEN success
    ELSE NoCode

\* An outcome that asks for more whatever the size of the batch.
receive_outcome_ignores_size(s, message) ==
    IF ~merge_ok(s, message) THEN invalid_previous_block
    ELSE IF complete(merge(s, message)) THEN success
    ELSE NoCode

\* An outcome that reports a failed merge as an exhausted peer.
receive_outcome_failure_code(s, message) ==
    IF ~merge_ok(s, message) THEN operation_failed
    ELSE IF complete(merge(s, message)) THEN success
    ELSE IF Len(message) < max_get_headers THEN operation_failed
    ELSE NoCode

\* An outcome that takes a full batch, too, for an exhausted peer.
receive_outcome_full_exhausted(s, message) ==
    IF ~merge_ok(s, message) THEN invalid_previous_block
    ELSE IF complete(merge(s, message)) THEN success
    ELSE IF Len(message) <= max_get_headers THEN operation_failed
    ELSE NoCode

\* What handle_receive_headers signals for an error-free message on table
\* s: a failed merge, a complete table, an exhausted peer, or nothing.
receive_outcome(s, message) ==
    IF ~merge_ok(s, message) THEN invalid_previous_block
    ELSE IF complete(merge(s, message)) THEN success
    ELSE IF Len(message) < max_get_headers THEN operation_failed
    ELSE NoCode

\* handle_receive_headers(ec, message, complete); subscribed' is its result.
handle_receive_headers(ec, message) ==
    /\ phase = "running"
    /\ subscribed
    /\ IF stopped
       THEN /\ subscribed' = FALSE
            /\ no_complete
            /\ UNCHANGED <<slots, sent, send_pending, merged, rejected>>
       ELSE IF ec # success
       THEN /\ subscribed' = FALSE
            /\ synchronize(ec)
            /\ UNCHANGED <<slots, sent, send_pending, merged, rejected>>
       ELSE /\ slots' = merge(slots, message)
            /\ merged' = (IF merge_ok(slots, message) THEN merged + 1 ELSE merged)
            /\ rejected' = (IF merge_ok(slots, message) THEN rejected
                            ELSE merge_reject(slots, message))
            /\ IF receive_outcome(slots, message) # NoCode
               THEN /\ subscribed' = FALSE
                    /\ synchronize(receive_outcome(slots, message))
                    /\ UNCHANGED <<sent, send_pending>>
               ELSE /\ send_get_headers(merge(slots, message))
                    /\ no_complete
                    /\ UNCHANGED subscribed
    /\ UNCHANGED <<first_height, minimum_rate_, phase, current_second_,
                   start_size_, chan_stopped, tick_in_flight, stop_event>>
    /\ UNCHANGED session_vars

\* current_second_ once another expiry period has passed.
elapsed ==
    IF current_second_ >= TickCap * expiry_interval
    THEN current_second_
    ELSE (current_second_ + expiry_interval) % SizeMod

\* (headers_->previous_height() - start_size_) / current_second_
rate == ((previous_height(slots) - start_size_) % SizeMod) \div elapsed

\* A handle_event that reports every failure of the timer as a timeout.
handle_event_masks_error(ec) ==
    /\ IF ec = channel_stopped
       THEN synchronize(ec) /\ UNCHANGED current_second_
       ELSE IF ec # success /\ ec # channel_timeout
       THEN synchronize(channel_timeout) /\ UNCHANGED current_second_
       ELSE /\ current_second_' = elapsed
            /\ IF rate < minimum_rate_
               THEN synchronize(channel_timeout)
               ELSE no_complete
    /\ UNCHANGED <<first_height, slots, minimum_rate_, phase, start_size_,
                   chan_stopped, subscribed, send_pending, sent, merged, rejected>>

\* handle_event(ec, complete): fired by the base timer and the stop handler.
handle_event(ec) ==
    /\ IF ec = channel_stopped
       THEN synchronize(ec) /\ UNCHANGED current_second_
       ELSE IF ec # success /\ ec # channel_timeout
       THEN synchronize(ec) /\ UNCHANGED current_second_
       ELSE /\ current_second_' = elapsed
            /\ IF rate < minimum_rate_
               THEN synchronize(channel_timeout)
               ELSE no_complete
    /\ UNCHANGED <<first_height, slots, minimum_rate_, phase, start_size_,
                   chan_stopped, subscribed, send_pending, sent, merged, rejected>>

(***************************************************************************)
(* The environment: the timer, the channel and the session.                *)
(***************************************************************************)
\* The perpetual timer expires on a running channel that is not stopped.
timer_expire ==
    /\ phase = "running"
    /\ ~stopped
    /\ ~tick_in_flight
    /\ tick_in_flight' = TRUE
    /\ UNCHANGED <<first_height, slots, minimum_rate_, phase, current_second_,
                   start_size_, counter, calls, first_signal, stop_pending,
                   chan_stopped, subscribed, stop_event, send_pending, sent,
                   merged, rejected>>
    /\ UNCHANGED session_vars

\* The expiry reaches handle_event: channel_timeout, or the timer's failure.
timer_event(ec) ==
    /\ tick_in_flight
    /\ tick_in_flight' = FALSE
    /\ handle_event(ec)
    /\ UNCHANGED stop_event
    /\ UNCHANGED session_vars

\* The channel's stop notification reaches handle_event.
stop_notify ==
    /\ stop_event
    /\ stop_event' = FALSE
    /\ handle_event(channel_stopped)
    /\ UNCHANGED tick_in_flight
    /\ UNCHANGED session_vars

\* The channel stops for a reason of its own (the peer went away).
channel_stop ==
    /\ ~stopped
    /\ chan_stopped' = TRUE
    /\ stop_event' = (phase = "running")
    /\ UNCHANGED <<first_height, slots, minimum_rate_, phase, current_second_,
                   start_size_, counter, calls, first_signal, stop_pending,
                   subscribed, tick_in_flight, send_pending, sent, merged, rejected>>
    /\ UNCHANGED session_vars

\* The session replaces a peer whose run has completed without success: the
\* next instance is constructed on the same table.
new_instance ==
    /\ calls # <<>>
    /\ \A k \in 1..Len(calls) : calls[k] # success
    /\ construct(slots)
    /\ UNCHANGED <<first_height, slots, minimum_rate_>>
    /\ UNCHANGED session_vars

Next ==
    \/ start
    \/ \E ec \in {success, bad_stream} : handle_send(ec)
    \/ \E message \in Batches(slots) : handle_receive_headers(success, message)
    \/ handle_receive_headers(bad_stream, <<>>)
    \/ \E ec \in {channel_timeout, bad_stream} : timer_event(ec)
    \/ timer_expire
    \/ stop_notify
    \/ channel_stop
    \/ headers_complete_stop
    \/ new_instance

Spec == Init /\ [][Next]_vars

\* The scheduling the thread pool gives: an armed timer expires, an expiry
\* and a stop notification reach handle_event, a send's handler runs, and
\* headers_complete goes on to stop the channel.  Nothing obliges a peer to
\* send headers, a channel to stop by itself or the session to replace a peer.
Fairness ==
    /\ WF_vars(timer_expire)
    /\ WF_vars(\E ec \in {channel_timeout, bad_stream} : timer_event(ec))
    /\ WF_vars(stop_notify)
    /\ WF_vars(\E ec \in {success, bad_stream} : handle_send(ec))
    /\ WF_vars(headers_complete_stop)

LiveSpec == Init /\ [][Next]_vars /\ Fairness

(***************************************************************************)
(* The session (session.cpp): start and reorganizations.                   *)
(***************************************************************************)
\* session::start(handle_complete).
session_start ==
    /\ ~session_started
    /\ session_started' = TRUE
    /\ channel_subscribed' = channel_subscribed + 1
    /\ fetch' = [state |-> "queued", height |-> 0]
    /\ reorg_subscribed' = reorg_subscribed + 1
    /\ UNCHANGED <<chain_height, handshake_heights, inv_to_broadcast,
                   broadcasts, reorgs, opened, inventory_subscribed,
                   get_blocks_subscribed, polled, announced, strand,
                   exists_pending, exists_calls, get_data_sent, pool>>
    /\ UNCHANGED sync_vars

\* The chain store answers fetch_last_height with the height it has then.
fetch_last_height ==
    /\ fetch.state = "queued"
    /\ fetch' = [state |-> "fetched", height |-> chain_height]
    /\ UNCHANGED <<session_started, channel_subscribed, reorg_subscribed,
                   chain_height, handshake_heights, inv_to_broadcast,
                   broadcasts, reorgs, opened, inventory_subscribed,
                   get_blocks_subscribed, polled, announced, strand,
                   exists_pending, exists_calls, get_data_sent, pool>>
    /\ UNCHANGED sync_vars

\* static_cast<uint32_t>(height)
to_uint32(height) == height % (max_uint32 + 1)

\* The answer's callback: handshake::set_start_height(_2, handle_set_height).
handle_fetch_last_height ==
    /\ fetch.state = "fetched"
    /\ fetch' = [fetch EXCEPT !.state = "done"]
    /\ handshake_heights' = Append(handshake_heights, to_uint32(fetch.height))
    /\ UNCHANGED <<session_started, channel_subscribed, reorg_subscribed,
                   chain_height, inv_to_broadcast, broadcasts, reorgs, opened,
                   inventory_subscribed, get_blocks_subscribed, polled,
                   announced, strand, exists_pending, exists_calls,
                   get_data_sent, pool>>
    /\ UNCHANGED sync_vars

\* The fork points the chain store can report: at or just below its height,
\* and a uint32_t.
ForkPoints ==
    { f \in {chain_height, chain_height - 1} : f >= 0 /\ f <= max_uint32 }

\* A set_start_height that subscribes again whatever the code it is given.
set_start_height_resubscribes(ec, fork_point, new_blocks) ==
    /\ reorg_subscribed > 0
    /\ reorgs < MaxReorgs
    /\ reorgs' = reorgs + 1
    /\ reorg_subscribed' = (reorg_subscribed - 1) + 1
    /\ IF ec # success
       THEN UNCHANGED <<chain_height, handshake_heights, inv_to_broadcast>>
       ELSE /\ chain_height' = fork_point + Len(new_blocks)
            /\ handshake_heights' =
                 Append(handshake_heights,
                        to_uint32(fork_point + Len(new_blocks)))
            /\ inv_to_broadcast' = Append(inv_to_broadcast, new_blocks)
    /\ UNCHANGED <<session_started, channel_subscribed, fetch, broadcasts,
                   opened, inventory_subscribed, get_blocks_subscribed, polled,
                   announced, strand, exists_pending, exists_calls,
                   get_data_sent, pool>>
    /\ UNCHANGED sync_vars

\* session::set_start_height(ec, fork_point, new_blocks, replaced_blocks), up
\* to its re-subscription.  The subscription that delivered the event is
\* spent.  BITCOIN_ASSERT compiles to nothing in a release build, which is
\* the build followed here: the cast truncates.
set_start_height(ec, fork_point, new_blocks) ==
    /\ reorg_subscribed > 0
    /\ reorgs < MaxReorgs
    /\ reorgs' = reorgs + 1
    /\ IF ec # success
       THEN /\ reorg_subscribed' = reorg_subscribed - 1
            /\ UNCHANGED <<chain_height, handshake_heights, inv_to_broadcast>>
       ELSE /\ chain_height' = fork_point + Len(new_blocks)
            /\ handshake_heights' =
                 Append(handshake_heights,
                        to_uint32(fork_point + Len(new_blocks)))
            /\ reorg_subscribed' = (reorg_subscribed - 1) + 1
            /\ inv_to_broadcast' = Append(inv_to_broadcast, new_blocks)
    /\ UNCHANGED <<session_started, channel_subscribed, fetch, broadcasts,
                   opened, inventory_subscribed, get_blocks_subscribed, polled,
                   announced, strand, exists_pending, exists_calls,
                   get_data_sent, pool>>
    /\ UNCHANGED sync_vars

\* An inv message that lists the new blocks last first.
blocks_inventory_reversed(new_blocks) ==
    [i \in 1..Len(new_blocks) |->
        [type |-> "block",
         hash |-> hash_block_header(
                      new_blocks[Len(new_blocks) + 1 - i].header)]]

\* The inv message built from new_blocks.
blocks_inventory(new_blocks) ==
    [i \in 1..Len(new_blocks) |->
        [type |-> "block", hash |-> hash_block_header(new_blocks[i].header)]]

\* A sequence without its i-th element.
Without(seq, i) == SubSeq(seq, 1, i - 1) \o SubSeq(seq, i + 1, Len(seq))

\* The rest of set_start_height: the inv of the new blocks is built and
\* handed to protocol_.broadcast.
broadcast_new_blocks(i) ==
    /\ i \in 1..Len(inv_to_broadcast)
    /\ broadcasts' = Append(broadcasts, blocks_inventory(inv_to_broadcast[i]))
    /\ inv_to_broadcast' = Without(inv_to_broadcast, i)
    /\ UNCHANGED <<session_started, channel_subscribed, reorg_subscribed,
                   chain_height, fetch, handshake_heights, reorgs, opened,
                   inventory_subscribed, get_blocks_subscribed, polled,
                   announced, strand, exists_pending, exists_calls,
                   get_data_sent, pool>>
    /\ UNCHANGED sync_vars

(***************************************************************************)
(* The session (session.cpp): channels, inventories and transactions.      *)
(***************************************************************************)
\* Transaction hashes peers announce.
TxHashes == {1, 2}

\* An inventory vector.
InventoryVector(type, h) == [type |-> type, hash |-> h]

\* The inventory messages a peer sends: none, one or two transactions (the
\* second pair out of numeric order), and a message of mixed types.
Packets ==
    { <<>>,
      <<InventoryVector("transaction", 1)>>,
      <<InventoryVector("transaction", 2), InventoryVector("transaction", 1)>>,
      <<InventoryVector("block", 1), InventoryVector("transaction", 2),
        InventoryVector("none", 1)>> }

\* A new_channel that asks the poller to query twice and never to monitor.
new_channel_queries_twice(ec, node) ==
    /\ channel_subscribed > 0
    /\ node \in Channels \ opened
    /\ opened' = opened \cup {node}
    /\ IF ec # success
       THEN /\ channel_subscribed' = channel_subscribed - 1
            /\ UNCHANGED <<inventory_subscribed, get_blocks_subscribed, polled>>
       ELSE /\ inventory_subscribed' =
                 [inventory_subscribed EXCEPT ![node] = @ + 1]
            /\ get_blocks_subscribed' =
                 [get_blocks_subscribed EXCEPT ![node] = @ + 1]
            /\ channel_subscribed' = (channel_subscribed - 1) + 1
            /\ polled' = [polled EXCEPT ![node] =
                                [query |-> @.query + 2, monitor |-> @.monitor]]
    /\ UNCHANGED <<session_started, reorg_subscribed, chain_height, fetch,
                   handshake_heights, inv_to_broadcast, broadcasts, reorgs,
                   announced, strand, exists_pending, exists_calls,
                   get_data_sent, pool>>
    /\ UNCHANGED sync_vars

\* session::new_channel(ec, node).  The subscription that delivered the
\* notification is spent.
new_channel(ec, node) ==
    /\ channel_subscribed > 0
    /\ node \in Channels \ opened
    /\ opened' = opened \cup {node}
    /\ IF ec # success
       THEN /\ channel_subscribed' = channel_subscribed - 1
            /\ UNCHANGED <<inventory_subscribed, get_blocks_subscribed, polled>>
       ELSE /\ inventory_subscribed' =
                 [inventory_subscribed EXCEPT ![node] = @ + 1]
            /\ get_blocks_subscribed' =
                 [get_blocks_subscribed EXCEPT ![node] = @ + 1]
            /\ channel_subscribed' = (channel_subscribed - 1) + 1
            /\ polled' = [polled EXCEPT ![node] =
                                [query |-> @.query + 1, monitor |-> @.monitor + 1]]
    /\ UNCHANGED <<session_started, reorg_subscribed, chain_height, fetch,
                   handshake_heights, inv_to_broadcast, broadcasts, reorgs,
                   announced, strand, exists_pending, exists_calls,
                   get_data_sent, pool>>
    /\ UNCHANGED sync_vars

\* Tasks posted for every vector, whatever its type.
tx_tasks_every_type(inventories, node) ==
    [i \in 1..Len(inventories) |->
        [tx_hash |-> inventories[i].hash, node |-> node]]

\* The new_tx_inventory tasks an inventory message has posted: one per
\* vector of type transaction, in the order of the message.
RECURSIVE tx_tasks(_, _)
tx_tasks(inventories, node) ==
    IF inventories = <<>> THEN <<>>
    ELSE (IF Head(inventories).type = "transaction"
          THEN <<[tx_hash |-> Head(inventories).hash, node |-> node]>>
          ELSE <<>>) \o tx_tasks(Tail(inventories), node)

\* An inventory handler that subscribes again whatever the code.
inventory_resubscribes(ec, packet, node) ==
    /\ inventory_subscribed[node] > 0
    /\ Len(announced) < MaxDeliveries
    /\ announced' = Append(announced, [stream |-> "inventory", ec |-> ec,
                                       node |-> node, packet |-> packet])
    /\ strand' = (IF ec # success THEN strand
                  ELSE strand \o tx_tasks(packet, node))
    /\ inventory_subscribed' =
         [inventory_subscribed EXCEPT ![node] = (@ - 1) + 1]
    /\ UNCHANGED <<session_started, channel_subscribed, reorg_subscribed,
                   chain_height, fetch, handshake_heights, inv_to_broadcast,
                   broadcasts, reorgs, opened, get_blocks_subscribed, polled,
                   exists_pending, exists_calls, get_data_sent, pool>>
    /\ UNCHANGED sync_vars

\* session::inventory(ec, packet, node).
inventory(ec, packet, node) ==
    /\ inventory_subscribed[node] > 0
    /\ Len(announced) < MaxDeliveries
    /\ announced' = Append(announced, [stream |-> "inventory", ec |-> ec,
                                       node |-> node, packet |-> packet])
    /\ IF ec # success
       THEN /\ inventory_subscribed' =
                 [inventory_subscribed EXCEPT ![node] = @ - 1]
            /\ UNCHANGED strand
       ELSE /\ strand' = strand \o tx_tasks(packet, node)
            /\ inventory_subscribed' =
                 [inventory_subscribed EXCEPT ![node] = (@ - 1) + 1]
    /\ UNCHANGED <<session_started, channel_subscribed, reorg_subscribed,
                   chain_height, fetch, handshake_heights, inv_to_broadcast,
                   broadcasts, reorgs, opened, get_blocks_subscribed, polled,
                   exists_pending, exists_calls, get_data_sent, pool>>
    /\ UNCHANGED sync_vars

\* A task that asks the pool twice.
new_tx_inventory_twice ==
    /\ strand # <<>>
    /\ strand' = Tail(strand)
    /\ exists_calls' = exists_calls + 2
    /\ exists_pending' = exists_pending \o <<Head(strand), Head(strand)>>
    /\ UNCHANGED <<session_started, channel_subscribed, reorg_subscribed,
                   chain_height, fetch, handshake_heights, inv_to_broadcast,
                   broadcasts, reorgs, opened, inventory_subscribed,
                   get_blocks_subscribed, polled, announced, get_data_sent,
                   pool>>
    /\ UNCHANGED sync_vars

\* session::new_tx_inventory(tx_hash, node): the strand runs its oldest task.
new_tx_inventory ==
    /\ strand # <<>>
    /\ strand' = Tail(strand)
    /\ exists_calls' = exists_calls + 1
    /\ exists_pending' = Append(exists_pending, Head(strand))
    /\ UNCHANGED <<session_started, channel_subscribed, reorg_subscribed,
                   chain_height, fetch, handshake_heights, inv_to_broadcast,
                   broadcasts, reorgs, opened, inventory_subscribed,
                   get_blocks_subscribed, polled, announced, get_data_sent,
                   pool>>
    /\ UNCHANGED sync_vars

\* The get_data request for one transaction.
request_tx(tx_hash, node) ==
    [node |-> node,
     inventories |-> <<InventoryVector("transaction", tx_hash)>>]

\* A request_tx_data that asks for the transaction whatever the answer.
request_tx_data_unconditional(i) ==
    /\ i \in 1..Len(exists_pending)
    /\ exists_pending' = Without(exists_pending, i)
    /\ get_data_sent' =
         Append(get_data_sent,
                request_tx(exists_pending[i].tx_hash, exists_pending[i].node))
    /\ UNCHANGED <<session_started, channel_subscribed, reorg_subscribed,
                   chain_height, fetch, handshake_heights, inv_to_broadcast,
                   broadcasts, reorgs, opened, inventory_subscribed,
                   get_blocks_subscribed, polled, announced, strand,
                   exists_calls, pool>>
    /\ UNCHANGED sync_vars

\* session::request_tx_data(tx_exists, tx_hash, node): the pool answers the
\* i-th query that is open with what it holds then.
request_tx_data(i) ==
    /\ i \in 1..Len(exists_pending)
    /\ exists_pending' = Without(exists_pending, i)
    /\ IF exists_pending[i].tx_hash \in pool
       THEN UNCHANGED get_data_sent
       ELSE get_data_sent' =
                Append(get_data_sent,
                       request_tx(exists_pending[i].tx_hash,
                                  exists_pending[i].node))
    /\ UNCHANGED <<session_started, channel_subscribed, reorg_subscribed,
                   chain_height, fetch, handshake_heights, inv_to_broadcast,
                   broadcasts, reorgs, opened, inventory_subscribed,
                   get_blocks_subscribed, polled, announced, strand,
                   exists_calls, pool>>
    /\ UNCHANGED sync_vars

\* A transaction reaches the pool (full_node::recieve_tx stores it).
pool_store(tx_hash) ==
    /\ tx_hash \notin pool
    /\ pool' = pool \cup {tx_hash}
    /\ UNCHANGED <<session_started, channel_subscribed, reorg_subscribed,
                   chain_height, fetch, handshake_heights, inv_to_broadcast,
                   broadcasts, reorgs, opened, inventory_subscribed,
                   get_blocks_subscribed, polled, announced, strand,
                   exists_pending, exists_calls, get_data_sent>>
    /\ UNCHANGED sync_vars

\* session::get_blocks(ec, packet, node).
get_blocks(ec, node) ==
    /\ get_blocks_subscribed[node] > 0
    /\ Len(announced) < MaxDeliveries
    /\ announced' = Append(announced, [stream |-> "get_blocks", ec |-> ec,
                                       node |-> node, packet |-> <<>>])
    /\ get_blocks_subscribed' =
         [get_blocks_subscribed EXCEPT
            ![node] = IF ec # success THEN @ - 1 ELSE (@ - 1) + 1]
    /\ UNCHANGED <<session_started, channel_subscribed, reorg_subscribed,
                   chain_height, fetch, handshake_heights, inv_to_broadcast,
                   broadcasts, reorgs, opened, inventory_subscribed, polled,
                   strand, exists_pending, exists_calls, get_data_sent, pool>>
    /\ UNCHANGED sync_vars

\* No header sync is under way while the session is followed.
sync_idle ==
    /\ first_height = 0
    /\ slots = <<>>
    /\ minimum_rate_ = 0
    /\ phase = "idle"
    /\ current_second_ = 0
    /\ start_size_ = construct_start_size(<<>>)
    /\ counter = 0
    /\ calls = <<>>
    /\ first_signal = NoCode
    /\ stop_pending = FALSE
    /\ chan_stopped = FALSE
    /\ subscribed = FALSE
    /\ tick_in_flight = FALSE
    /\ stop_event = FALSE
    /\ send_pending = 0
    /\ sent = <<>>
    /\ merged = 0
    /\ rejected = "none"

\* The session is constructed on a chain store that is low or close to the
\* largest height a uint32_t holds.
ReorgInit ==
    /\ sync_idle
    /\ session_construct
    /\ chain_height \in {0, max_uint32 - 1}

\* The session's start and what the chain store calls back.  The channels
\* and their messages touch none of the variables these actions touch, and
\* are followed on their own.
ReorgNext ==
    \/ session_start
    \/ fetch_last_height
    \/ handle_fetch_last_height
    \/ \E fork_point \in ForkPoints, new_blocks \in BlockLists :
            set_start_height(success, fork_point, new_blocks)
    \/ set_start_height(service_stopped, 0, <<>>)
    \/ \E i \in 1..Len(inv_to_broadcast) : broadcast_new_blocks(i)

ReorgSpec == ReorgInit /\ [][ReorgNext]_vars

ChannelInit ==
    /\ sync_idle
    /\ session_construct
    /\ chain_height = 0

\* The session's start, the channels the network opens and what their peers
\* send.  The reorganizations touch none of the variables these actions
\* touch, and are followed on their own.
ChannelNext ==
    \/ session_start
    \/ \E ec \in {success, bad_stream}, node \in Channels : new_channel(ec, node)
    \/ \E packet \in Packets, node \in Channels :
            inventory(success, packet, node)
    \/ \E node \in Channels : inventory(bad_stream, <<>>, node)
    \/ new_tx_inventory
    \/ \E i \in 1..Len(exists_pending) : request_tx_data(i)
    \/ \E tx_hash \in TxHashes : pool_store(tx_hash)
    \/ \E ec \in {success, bad_stream}, node \in Channels : get_blocks(ec, node)

ChannelSpec == ChannelInit /\ [][ChannelNext]_vars

(***************************************************************************)
(* The claims.                                                             *)
(***************************************************************************)

\* C1: in one header-sync run, whatever the interleaving of headers
\* receipts, send completions, timer ticks and channel-stop events, the
\* user's handler is invoked at most once, with the code of the first
\* completion signalled; every later signal is discarded.
C1_HandlerOnceFirstWins ==
    /\ Len(calls) <= 1
    /\ (calls = <<>>) <=> (first_signal = NoCode)
    /\ calls # <<>> => calls[1] = first_signal

\* The handler got channel_timeout first; the merge that completed the table
\* afterwards signalled success, which was discarded.
C1_LaterSignalDiscarded ==
    /\ calls = <<channel_timeout>>
    /\ merged > 0
    /\ complete(slots)

\* C2: every run that has been started eventually invokes its completion
\* handler, for every minimum rate and every peer behaviour.
C2_EveryRunCompletes == (phase = "running") ~> (calls # <<>>)

\* A step in which handle_receive_headers, on a channel that is not
\* stopped, is handed the error-free message m.
Receives(m) ==
    /\ phase = "running"
    /\ subscribed
    /\ ~stopped
    /\ handle_receive_headers(success, m)

\* Every such step is recorded: merged counts the merges that returned true,
\* rejected takes the reason of the one that returned false.
ReceiveRecorded ==
    [][(\E m \in Batches(slots) : Receives(m)) =>
            IF merged' = merged + 1
            THEN rejected' = rejected
            ELSE rejected = "none" /\ rejected' # "none" /\ merged' = merged]_vars

\* Such a step whose merge returns false.
MergeFails ==
    /\ rejected' # rejected
    /\ \E m \in Batches(slots) : ~merge_ok(slots, m) /\ Receives(m)

\* The step stores no header: what is stored after it was stored before it.
NothingAppended ==
    /\ Len(slots') <= Len(slots)
    /\ slots' = SubSeq(slots, 1, Len(slots'))

C4_SlotsLinked ==
    \A i \in 1..Len(slots) :
        slots[i].previous_hash =
            (IF i = 1 THEN first_hash ELSE hash(slots[i - 1]))

\* A replacement instance, started on a table that was not empty, has merged
\* a batch of its own.
C4_ReplacementExtended ==
    /\ sent # <<>>
    /\ sent[1].locator # first_hash
    /\ merged > 0
    /\ Len(slots) >= 2

\* A step whose merge is handed more accepted headers than the table has room
\* for.
OverflowMerge ==
    /\ rejected' # rejected
    /\ \E m \in Batches(slots) :
        /\ Len(slots) + Len(Accepted(m)) > Capacity
        /\ Receives(m)

\* C5: the number of stored headers never exceeds the capacity; a merge whose
\* accepted headers would take the table beyond it returns false (it is not
\* counted as merged) and appends nothing (what is stored afterwards is a
\* prefix of what was stored before).
C5_CapacityRespected ==
    /\ [](Len(slots) <= Capacity)
    /\ [][OverflowMerge =>
            /\ merged' = merged
            /\ NothingAppended]_vars

\* A merge of this instance was rejected for capacity.
C5_OverflowRejected == rejected = "capacity"

\* C6: whenever the handler is invoked with success the table is complete at
\* that moment: it is not empty and the hash of its last stored header is
\* stop_hash.
C6_SuccessAtComplete ==
    [][(calls' # calls /\ calls' # <<>> /\ calls'[Len(calls')] = success) =>
            /\ slots' # <<>>
            /\ hash(slots'[Len(slots')]) = stop_hash]_vars

\* The handler has been invoked with success.
C6_CompletedWithSuccess == calls = <<success>>

\* C7 as claimed: a batch of fewer than max_get_headers headers, received
\* without error on a channel that is not stopped and which does not leave
\* the table complete, terminates the run with operation_failed.
C7_ShortBatchFails ==
    [][(/\ merged' # merged \/ rejected' # rejected
        /\ \E m \in Batches(slots) :
            /\ Len(m) < max_get_headers
            /\ Receives(m)
            /\ ~complete(slots'))
        => calls' = <<operation_failed>>]_vars

\* C7 as the code has it: such a batch, when its merge succeeds, makes the
\* instance signal operation_failed and drop its subscription; the handler is
\* invoked with operation_failed unless a completion was signalled before,
\* in which case the handler is not invoked again.
C7_ShortMergedBatchFails ==
    [][(/\ merged' # merged
        /\ \E m \in Batches(slots) :
            /\ Len(m) < max_get_headers
            /\ merge_ok(slots, m)
            /\ Receives(m)
            /\ ~complete(slots'))
        => /\ ~subscribed'
           /\ IF first_signal = NoCode
              THEN calls' = <<operation_failed>> /\ first_signal' = operation_failed
              ELSE calls' = calls /\ first_signal' = first_signal]_vars

\* The run ended with operation_failed after a merge that left the table
\* incomplete.
C7_PeerExhausted ==
    /\ calls = <<operation_failed>>
    /\ merged > 0
    /\ ~complete(slots)

\* C8 as claimed: once the instance has invoked the handler and stopped the
\* channel, every later handler invocation of that instance is a no-op: it
\* changes nothing of the table, the counters, the synchronizer or the
\* requests sent.
C8_LateHandlersNoOps ==
    [][(calls # <<>> /\ ~stop_pending /\ stopped /\ phase' = "running") =>
            UNCHANGED <<slots, current_second_, start_size_, counter, calls,
                        first_signal, sent>>]_vars

C10_FirstTickTimesOut ==
    [][(/\ timer_event(channel_timeout)
        /\ current_second_ = 0
        /\ merged = 0
        /\ first_signal = NoCode
        /\ minimum_rate_ > 0)
        => /\ rate = 0
           /\ calls' = <<channel_timeout>>
           /\ slots' = slots]_vars

\* A step that hands merge, for the second time in a row, the batch it has
\* just merged: the instance started on an empty table and has merged one
\* batch, so the table holds exactly that batch, and the peer delivers it
\* again.
MergesSameBatchAgain ==
    /\ merged = 1
    /\ slots # <<>>
    /\ sent # <<>>
    /\ sent[1].locator = first_hash
    /\ slots \in Batches(slots)
    /\ Receives(slots)

MergeFillsCapacity ==
    /\ merged' = merged + 1
    /\ Len(slots') = Capacity

C13_EmptyReorgNoBroadcast ==
    [][\A i \in 1..Len(inv_to_broadcast) :
            (inv_to_broadcast[i] = <<>> /\ broadcast_new_blocks(i)) =>
                broadcasts' = broadcasts]_vars

\* C14 as claimed: for every error-free reorganization (fork_point,
\* new_blocks) the handshake is given exactly fork_point + len(new_blocks),
\* once, the sum not wrapping around 32 bits.
C14_PushesExactHeight ==
    [][\A fork_point \in ForkPoints, new_blocks \in BlockLists :
            set_start_height(success, fork_point, new_blocks) =>
                handshake_heights' =
                    Append(handshake_heights, fork_point + Len(new_blocks))]_vars

\* Error-free reorganizations handled so far: each gave the handshake one
\* height, as did the answer to fetch_last_height.
ReorgsHandled ==
    Len(handshake_heights) - (IF fetch.state = "done" THEN 1 ELSE 0)

\* C15: for every error-free reorganization the session re-arms the
\* reorganization subscription exactly once (the one that delivered the event
\* is spent, one is armed) and issues one inv broadcast: a broadcast is
\* issued or still to be issued for each such event, and the broadcast of an
\* event carries one vector per new block, of type block, with the block's
\* header hash, in the order of new_blocks.
C15_OneInvPerReorg ==
    /\ [](Len(broadcasts) + Len(inv_to_broadcast) = ReorgsHandled)
    /\ [][\A fork_point \in ForkPoints, new_blocks \in BlockLists :
            set_start_height(success, fork_point, new_blocks) =>
                /\ reorg_subscribed' = reorg_subscribed
                /\ reorg_subscribed' = 1
                /\ inv_to_broadcast' = Append(inv_to_broadcast, new_blocks)
                /\ broadcasts' = broadcasts]_vars
    /\ [][\A i \in 1..Len(inv_to_broadcast) :
            broadcast_new_blocks(i) =>
                /\ Len(broadcasts') = Len(broadcasts) + 1
                /\ Len(inv_to_broadcast') = Len(inv_to_broadcast) - 1
                /\ LET new_blocks == inv_to_broadcast[i]
                       inv == broadcasts'[Len(broadcasts')]
                   IN  /\ Len(inv) = Len(new_blocks)
                       /\ \A k \in 1..Len(new_blocks) :
                            /\ inv[k].type = "block"
                            /\ inv[k].hash = hash(new_blocks[k].header)]_vars

\* A reorganization with two different new blocks has been broadcast and the
\* subscription is armed again.
C15_TwoBlocksBroadcast ==
    /\ reorg_subscribed = 1
    /\ inv_to_broadcast = <<>>
    /\ \E k \in 1..Len(broadcasts) :
            /\ Len(broadcasts[k]) = 2
            /\ broadcasts[k][1].hash # broadcasts[k][2].hash

\* Two channels have each announced transaction 1, in an inventory message
\* of its own, and nothing else has been delivered.
TwoChannelsAnnounceSame ==
    /\ Len(announced) = 2
    /\ \A k \in 1..2 :
        /\ announced[k].stream = "inventory"
        /\ announced[k].ec = success
        /\ announced[k].packet = <<InventoryVector("transaction", 1)>>
    /\ announced[1].node # announced[2].node

\* Both tasks have run and both queries have been answered.
TasksDone == strand = <<>> /\ exists_pending = <<>>

\* C16 as claimed: when two channels announce the same transaction hash,
\* exists is called exactly twice and at most one get_data for the hash is
\* sent, under every interleaving.
C16_AtMostOneGetData ==
    (TwoChannelsAnnounceSame /\ TasksDone) =>
        /\ exists_calls = 2
        /\ Len(get_data_sent) <= 1

\* C16 as the code has it: exists is called once per announcement, twice in
\* all; each query that is answered false sends one get_data on the channel
\* that announced, so at most two are sent, never two on one channel, and
\* none for another hash; both are sent when both queries are answered
\* before the transaction is in the pool.
C16_OneGetDataPerAnnouncement ==
    TwoChannelsAnnounceSame =>
        /\ exists_calls + Len(strand) = 2
        /\ Len(get_data_sent) + Len(exists_pending) <= exists_calls
        /\ \A j \in 1..Len(get_data_sent) :
            /\ get_data_sent[j].inventories =
                 <<InventoryVector("transaction", 1)>>
            /\ \A k \in 1..Len(get_data_sent) :
                 get_data_sent[j].node = get_data_sent[k].node => j = k
        /\ (TasksDone /\ 1 \notin pool) => Len(get_data_sent) = 2

\* Both announcements were answered with a get_data.
C16_BothRequested ==
    /\ TwoChannelsAnnounceSame
    /\ TasksDone
    /\ exists_calls = 2
    /\ Len(get_data_sent) = 2

\* What the first get_headers of an instance started on the table as it is
\* has to carry.
ResumeRequest ==
    [locator |-> (IF slots = <<>> THEN first_hash ELSE hash(slots[Len(slots)])),
     stop |-> stop_hash]

MergeAttempted == merged' = merged + 1 \/ (rejected = "none" /\ rejected' # "none")

\* A step in which handle_event is given a timeout and computes the rate,
\* reading previous_height().
RateComputed == tick_in_flight /\ timer_event(channel_timeout)

\* C18 as claimed: once the instance's completion barrier has fired (the
\* handler has been invoked, so that a replacement may be constructed) the
\* instance neither reads nor writes the table again: no later step of it
\* hands a batch to merge, changes the table or computes the rate, a late
\* timer tick or headers delivery included.
C18_NoTableAccessAfterBarrier ==
    [][(calls # <<>> /\ ~new_instance) =>
            /\ slots' = slots
            /\ ~MergeAttempted
            /\ ~RateComputed]_vars

\* C19: a headers delivery that arrives while the channel is stopped does
\* nothing.  On a stopped channel no step of a running instance merges,
\* changes the table or sends get_headers, and the step that takes the
\* delivery (the one that changes the subscription) signals no completion
\* and leaves the instance unsubscribed: the handler returned false.
C19_StoppedDeliveryDoesNothing ==
    [][(chan_stopped /\ phase = "running" /\ phase' = "running") =>
            /\ slots' = slots
            /\ merged' = merged
            /\ rejected' = rejected
            /\ sent' = sent
            /\ (subscribed' # subscribed) =>
                    /\ ~subscribed'
                    /\ send_pending' = send_pending
                    /\ calls' = calls
                    /\ counter' = counter
                    /\ first_signal' = first_signal]_vars

\* C19's case: a running instance on a stopped channel has taken a delivery
\* (it is no longer subscribed) and nothing has been signalled.
C19_DeliveryOnStoppedChannel ==
    /\ phase = "running"
    /\ chan_stopped
    /\ ~subscribed
    /\ first_signal = NoCode
    /\ calls = <<>>

\* A step that merges a batch of exactly max_get_headers headers and leaves
\* the table incomplete.
FullBatchMergedIncomplete ==
    /\ merged' = merged + 1
    /\ Len(slots') = Len(slots) + max_get_headers
    /\ ~complete(slots')

HeadersDelivered ==
    /\ phase = "running"
    /\ phase' = "running"
    /\ subscribed
    /\ (~subscribed' \/ merged' = merged + 1)

\* C21 as claimed: handle_receive_headers returns true exactly when the
\* invocation signalled no completion and left the run awaiting headers (no
\* completion signalled so far, the channel not stopped); it returns false
\* on every terminal transition and on a stopped channel.
C21_TrueIffStillAwaiting ==
    [][HeadersDelivered =>
            (subscribed' <=> /\ first_signal' = NoCode
                             /\ calls' = <<>>
                             /\ ~chan_stopped)]_vars

\* C22: on every terminal transition the handler is invoked first and the
\* stop of the channel is requested after it.  A stop is pending only
\* once the handler has been invoked, the step that invokes the handler
\* leaves the stop to come, the stop leaves the channel stopped, a completed
\* run has its channel stopped or about to be, and the stop that is pending
\* is always made unless the instance is replaced first.
C22_HandlerThenStop ==
    /\ [][/\ stop_pending' => calls' # <<>>
          /\ (calls' # calls /\ calls' # <<>>) =>
                 (Len(calls') = Len(calls) + 1 /\ stop_pending')
          /\ (stop_pending /\ ~stop_pending' /\ phase' = phase) => chan_stopped'
          /\ calls' # <<>> => (stop_pending' \/ chan_stopped')]_vars
    /\ (calls # <<>>) ~> (chan_stopped \/ calls = <<>>)

\* C22's case: the handler was invoked for a failed send on a live channel
\* and the stop that followed has stopped the channel.
C22_StoppedAfterHandler ==
    /\ calls = <<bad_stream>>
    /\ ~stop_pending
    /\ chan_stopped
    /\ ~stop_event

\* The table, the merge record and the seconds counted are as they were.
NoMergeNoTick ==
    /\ slots' = slots
    /\ merged' = merged
    /\ rejected' = rejected
    /\ current_second_' = current_second_

\* The code ec is signalled: it completes the run unless a completion was
\* signalled before, in which case nothing more reaches the handler.
SignalledOnce(ec) ==
    IF first_signal = NoCode
    THEN calls' = <<ec>> /\ first_signal' = ec
    ELSE calls' = calls /\ first_signal' = first_signal

\* C23 as claimed: a headers delivery that carries a transport failure, and
\* a timer event that carries channel_stopped or an error other than
\* channel_timeout, each complete the run with exactly that code, without a
\* merge, without a change of the table and without counting seconds.
C23_ErrorCodeCompletesRun ==
    [][/\ handle_receive_headers(bad_stream, <<>>) =>
              (calls' = <<bad_stream>> /\ NoMergeNoTick)
       /\ timer_event(bad_stream) =>
              (calls' = <<bad_stream>> /\ NoMergeNoTick)
       /\ stop_notify =>
              (calls' = <<channel_stopped>> /\ NoMergeNoTick)]_vars

\* C23 as the code has it: each of these signals exactly the code it
\* carries, with no merge, no change of the table and no seconds counted;
\* the run completes with that code unless a completion was signalled
\* before, and a headers delivery on a stopped channel signals nothing.
C23_ErrorCodeSignalled ==
    [][/\ handle_receive_headers(bad_stream, <<>>) =>
              /\ NoMergeNoTick
              /\ ~subscribed'
              /\ IF chan_stopped
                 THEN calls' = calls /\ first_signal' = first_signal
                 ELSE SignalledOnce(bad_stream)
       /\ timer_event(bad_stream) =>
              (NoMergeNoTick /\ SignalledOnce(bad_stream))
       /\ stop_notify =>
              (NoMergeNoTick /\ SignalledOnce(channel_stopped))]_vars

\* C23's case: with the first request still on its way, a headers delivery
\* with bad_stream has ended the run with that code; nothing was merged and
\* no second was counted.
C23_TransportFailureEndsRun ==
    /\ calls = <<bad_stream>>
    /\ ~subscribed
    /\ ~chan_stopped
    /\ send_pending = 1
    /\ ~tick_in_flight
    /\ merged = 0
    /\ rejected = "none"
    /\ current_second_ = 0

\* C24: a reorganization callback that carries service_stopped ends the
\* subscription chain.  The callback leaves the session without a
\* reorganization subscription, pushes no height and queues no broadcast;
\* and a started session without a subscription never handles another
\* reorganization: it takes no callback, moves to no new height and queues
\* no inv (the inv of a reorganization handled before may still go out).
C24_ServiceStoppedEndsChain ==
    [][/\ set_start_height(service_stopped, 0, <<>>) =>
              /\ reorg_subscribed' = 0
              /\ handshake_heights' = handshake_heights
              /\ inv_to_broadcast' = inv_to_broadcast
              /\ broadcasts' = broadcasts
              /\ chain_height' = chain_height
       /\ (session_started /\ reorg_subscribed = 0) =>
              /\ reorg_subscribed' = 0
              /\ reorgs' = reorgs
              /\ Len(inv_to_broadcast') <= Len(inv_to_broadcast)
              /\ chain_height' = chain_height]_vars

\* C24's case: the first callback carried service_stopped; the session
\* holds no subscription, though another reorganization could be taken, and
\* nothing was broadcast.
C24_ChainEnded ==
    /\ session_started
    /\ reorgs = 1
    /\ reorg_subscribed = 0
    /\ inv_to_broadcast = <<>>
    /\ broadcasts = <<>>
    /\ fetch.state = "done"

\* C25 as claimed: reorganizations are handled one at a time.  The session
\* holds a reorganization subscription only when no handler has an inv
\* still to broadcast, so no two handlers are in progress together, and
\* every inv that goes out is that of the oldest reorganization still to
\* be broadcast.
C25_ReorgsOneAtATime ==
    [][/\ inv_to_broadcast' # <<>> => reorg_subscribed' = 0
       /\ Len(inv_to_broadcast') <= 1
       /\ broadcasts' # broadcasts =>
              broadcasts' = Append(broadcasts,
                                   blocks_inventory(Head(inv_to_broadcast)))]_vars

\* The vector announces a transaction.
IsTransaction(inventory_vector) == inventory_vector.type = "transaction"

\* The last delivery the session has taken.
LastDelivery == announced'[Len(announced')]

\* A step in which the session takes an error-free inventory message.
InventoryTaken ==
    /\ Len(announced') = Len(announced) + 1
    /\ LastDelivery.stream = "inventory"
    /\ LastDelivery.ec = success

\* C26: for every error-free inventory message the session posts exactly
\* one new_tx_inventory(hash, channel) task per vector of type transaction,
\* in the order of the message, nothing for any other vector, and holds
\* the channel's inventory subscription again afterwards, once.
C26_OneTaskPerTransaction ==
    [][InventoryTaken =>
            LET transactions == SelectSeq(LastDelivery.packet, IsTransaction)
            IN  /\ strand' = strand \o
                        [i \in 1..Len(transactions) |->
                            [tx_hash |-> transactions[i].hash,
                             node |-> LastDelivery.node]]
                /\ inventory_subscribed[LastDelivery.node] = 1
                /\ inventory_subscribed' = inventory_subscribed]_vars

\* C26's case: a message of mixed types and then one with two transactions
\* were taken; the strand holds the three tasks in order, none has run.
C26_TasksInMessageOrder ==
    /\ Len(announced) = 2
    /\ announced[1].ec = success
    /\ announced[2].ec = success
    /\ announced[1].packet = <<InventoryVector("block", 1),
                               InventoryVector("transaction", 2),
                               InventoryVector("none", 1)>>
    /\ announced[2].packet = <<InventoryVector("transaction", 2),
                               InventoryVector("transaction", 1)>>
    /\ strand = <<[tx_hash |-> 2, node |-> announced[1].node],
                  [tx_hash |-> 2, node |-> announced[2].node],
                  [tx_hash |-> 1, node |-> announced[2].node]>>
    /\ exists_calls = 0

\* A step in which the session takes a delivery that carries an error.
ErrorTaken ==
    /\ Len(announced') = Len(announced) + 1
    /\ LastDelivery.ec # success

\* The subscriptions of a stream, per channel.
StreamSubscribed(stream) ==
    IF stream = "inventory" THEN inventory_subscribed ELSE get_blocks_subscribed

\* C27: an inventory or get_blocks delivery that carries an error posts no
\* task, sends nothing and leaves the channel without a subscription to
\* that stream; and a channel without a subscription to a stream has no
\* later message of that stream handled and never gets the subscription
\* back.
C27_ErrorEndsStream ==
    [][/\ ErrorTaken =>
              /\ strand' = strand
              /\ exists_pending' = exists_pending
              /\ get_data_sent' = get_data_sent
              /\ inventory_subscribed'[LastDelivery.node] =
                     (IF LastDelivery.stream = "inventory" THEN 0
                      ELSE inventory_subscribed[LastDelivery.node])
              /\ get_blocks_subscribed'[LastDelivery.node] =
                     (IF LastDelivery.stream = "get_blocks" THEN 0
                      ELSE get_blocks_subscribed[LastDelivery.node])
       /\ \A node \in opened, stream \in {"inventory", "get_blocks"} :
              StreamSubscribed(stream)[node] = 0 =>
                  /\ StreamSubscribed(stream)'[node] = 0
                  /\ ~(/\ Len(announced') = Len(announced) + 1
                       /\ LastDelivery.stream = stream
                       /\ LastDelivery.node = node)]_vars

\* C27's case: one channel has delivered an error on each stream; it holds
\* neither subscription and nothing was posted or sent.
C27_BothStreamsEnded ==
    /\ Len(announced) = 2
    /\ announced[1].ec = bad_stream
    /\ announced[2].ec = bad_stream
    /\ announced[1].stream = "inventory"
    /\ announced[2].stream = "get_blocks"
    /\ announced[1].node = announced[2].node
    /\ inventory_subscribed[announced[1].node] = 0
    /\ get_blocks_subscribed[announced[1].node] = 0
    /\ strand = <<>>
    /\ get_data_sent = <<>>

\* C28: every new_tx_inventory(hash, channel) task asks the pool once, and
\* sends nothing itself; the answer to a query sends one get_data with the
\* single vector {transaction, hash} on the task's channel if the pool does
\* not hold the transaction, and nothing if it does.
C28_ExistsOnceGetDataIffMissing ==
    [][/\ Len(strand') < Len(strand) =>
              /\ strand' = Tail(strand)
              /\ exists_calls' = exists_calls + 1
              /\ exists_pending' = Append(exists_pending, Head(strand))
              /\ get_data_sent' = get_data_sent
       /\ Len(exists_pending') < Len(exists_pending) =>
              /\ exists_calls' = exists_calls
              /\ \E i \in 1..Len(exists_pending) :
                    /\ exists_pending' = Without(exists_pending, i)
                    /\ IF exists_pending[i].tx_hash \in pool
                       THEN get_data_sent' = get_data_sent
                       ELSE get_data_sent' =
                              Append(get_data_sent,
                                     [node |-> exists_pending[i].node,
                                      inventories |->
                                        <<[type |-> "transaction",
                                           hash |-> exists_pending[i].tx_hash]>>])
       /\ get_data_sent' # get_data_sent =>
              Len(exists_pending') < Len(exists_pending)]_vars

\* C28's case: two tasks have run and both queries are answered, one with
\* false (a get_data went out) and one with true (nothing was sent).
C28_OneMissingOneHeld ==
    /\ exists_calls = 2
    /\ strand = <<>>
    /\ exists_pending = <<>>
    /\ Len(get_data_sent) = 1
    /\ get_data_sent[1].inventories[1].hash \in pool

\* C29: for every error-free new-channel notification the session
\* subscribes the channel's inventory stream once and its get_blocks stream
\* once, asks the poller to query and to monitor the channel once each, and
\* holds one new-channel subscription again; no other channel is touched.
C29_NewChannelWiredOnce ==
    [][\A node \in Channels :
         new_channel(success, node) =>
            /\ inventory_subscribed[node] = 0
            /\ inventory_subscribed' = [inventory_subscribed EXCEPT ![node] = 1]
            /\ get_blocks_subscribed[node] = 0
            /\ get_blocks_subscribed' =
                   [get_blocks_subscribed EXCEPT ![node] = 1]
            /\ polled[node] = [query |-> 0, monitor |-> 0]
            /\ polled' = [polled EXCEPT ![node] = [query |-> 1, monitor |-> 1]]
            /\ channel_subscribed = 1
            /\ channel_subscribed' = 1]_vars

\* C29's case: every channel has been notified without error and is wired
\* once; the session holds its new-channel subscription.
C29_AllChannelsWired ==
    /\ opened = Channels
    /\ channel_subscribed = 1
    /\ \A node \in Channels :
          /\ inventory_subscribed[node] = 1
          /\ get_blocks_subscribed[node] = 1
          /\ polled[node] = [query |-> 1, monitor |-> 1]

\* C30 as claimed: from its start on the session holds a new-channel
\* subscription whenever no notification is being handled, so that every
\* channel opened later is wired, also after a notification that reported
\* an error.
C30_AlwaysSubscribedToChannels ==
    session_started => channel_subscribed > 0

\* C31 as claimed: the start height the handshake layer holds is never
\* replaced by an older one.  Once a reorganization has pushed its height,
\* the answer to the fetch_last_height issued by start does not change the
\* height held, whatever the order of the two callbacks.
C31_FetchNeverOverwritesReorg ==
    [][(/\ fetch.state = "fetched"
        /\ fetch'.state = "done"
        /\ handshake_heights # <<>>) =>
            handshake_heights'[Len(handshake_heights')] =
                handshake_heights[Len(handshake_heights)]]_vars

\* C32: within one run requests and handled replies alternate.  The
\* instance has never sent more than one get_headers beyond the batches it
\* has merged; a get_headers goes out one at a time, from an instance whose
\* timer is armed and which is subscribed to headers; the first goes out
\* before any merge and every later one in the step that merges a batch.
C32_RequestsFollowMerges ==
    [][/\ Len(sent') <= merged' + 1
       /\ Len(sent') > Len(sent) =>
              /\ Len(sent') = Len(sent) + 1
              /\ phase' = "running"
              /\ subscribed'
              /\ IF sent = <<>>
                 THEN merged' = 0 /\ merged = 0
                 ELSE merged' = merged + 1]_vars

\* C32's case: the second request went out after the first batch merged;
\* both sends have completed, the instance is subscribed and an expiry of
\* its timer is on its way.
C32_SecondRequestAfterMerge ==
    /\ phase = "running"
    /\ Len(sent) = 2
    /\ merged = 1
    /\ send_pending = 0
    /\ subscribed
    /\ tick_in_flight

============================================================================
